---- MODULE Spec2Model ----
(***************************************************************************)
(* Model of the two utilities of the LLM dashboard:                        *)
(*   - playground/proxy.py : the CORS forwarding proxy (ProxyHandler)      *)
(*   - refresh.py          : the pricing refresh helper (main and          *)
(*                           merge_updates)                                *)
(*                                                                         *)
(* Byte strings and text are sequences of lexical units.  A JSON document  *)
(* is the sequence of its tokens; json.loads and json.dumps are modelled   *)
(* as a decoder and an encoder over these tokens.  A URL is the sequence   *)
(* of its lexical units ("https", ":", "//", "api.openai.com", "/", ...),  *)
(* and urlparse(url).hostname is computed from them as urllib does.        *)
(* Prices are integers (a price in the smallest currency unit).            *)
(***************************************************************************)
EXTENDS Integers, Sequences, FiniteSets, TLC

\* ------------------------------------------------------------------------
\* Python values.  Every value has the same record shape so that any two
\* values can be compared: ty is the Python type, s the text of a str,
\* n the value of an int, items the (key, value) pairs of a dict in
\* insertion order (a list keeps its elements under the empty key).
\* ------------------------------------------------------------------------
PyNone == [ty |-> "none", s |-> <<>>, n |-> 0, items |-> <<>>]

PyStr(s) == [ty |-> "str", s |-> s, n |-> 0, items |-> <<>>]

PyInt(n) == [ty |-> "int", s |-> <<>>, n |-> n, items |-> <<>>]

PyDict(items) == [ty |-> "dict", s |-> <<>>, n |-> 0, items |-> items]

PyList(elems) ==
  [ty |-> "list", s |-> <<>>, n |-> 0,
   items |-> [i \in 1..Len(elems) |-> <<<<>>, elems[i]>>]]

\* key in d
DictHas(d, k) == \E i \in 1..Len(d.items) : d.items[i][1] = k

DictPos(d, k) == CHOOSE i \in 1..Len(d.items) : d.items[i][1] = k

\* d.get(k, default)
DictGet(d, k, default) ==
  IF DictHas(d, k) THEN d.items[DictPos(d, k)][2] ELSE default

\* d[k] = v : an existing key keeps its position, a new key is appended
DictSet(d, k, v) ==
  IF DictHas(d, k)
  THEN [d EXCEPT !.items[DictPos(d, k)] = <<k, v>>]
  ELSE [d EXCEPT !.items = Append(@, <<k, v>>)]

ListLen(l) == Len(l.items)

ListAt(l, i) == l.items[i][2]

ListPut(l, i, v) == [l EXCEPT !.items[i] = <<<<>>, v>>]

\* ------------------------------------------------------------------------
\* JSON text as tokens.  t: "p" punctuation, "s" string literal, "n" number,
\* "lit" the literal null, "ws" whitespace, "bad" a byte that is not UTF-8.
\* ------------------------------------------------------------------------
Tok(t, v, n) == [t |-> t, v |-> v, n |-> n]

P(c) == Tok("p", <<c>>, 0)

S(s) == Tok("s", s, 0)

N(n) == Tok("n", <<>>, n)

Null == Tok("lit", <<"null">>, 0)

Sp == Tok("ws", <<" ">>, 0)

\* newline followed by width spaces
Nl(width) == Tok("ws", <<"\n">>, width)

BadByte == Tok("bad", <<"0xff">>, 0)

IsP(toks, i, c) == i <= Len(toks) /\ toks[i] = P(c)

ParseFail == [ok |-> FALSE, val |-> PyNone, nxt |-> 0]

ParseOk(val, nxt) == [ok |-> TRUE, val |-> val, nxt |-> nxt]

RECURSIVE ParseValue(_, _)
RECURSIVE ParseMembers(_, _, _)
RECURSIVE ParseElements(_, _, _)

\* members of an object after "{" or ",": string ":" value, then "," or "}"
ParseMembers(toks, i, acc) ==
  IF i <= Len(toks) /\ toks[i].t = "s" /\ IsP(toks, i + 1, ":")
  THEN LET r == ParseValue(toks, i + 2) IN
       IF ~r.ok THEN ParseFail
       ELSE LET acc2 == DictSet(acc, toks[i].v, r.val) IN
            IF IsP(toks, r.nxt, "}") THEN ParseOk(acc2, r.nxt + 1)
            ELSE IF IsP(toks, r.nxt, ",") THEN ParseMembers(toks, r.nxt + 1, acc2)
            ELSE ParseFail
  ELSE ParseFail

\* elements of an array after "[" or ",": value, then "," or "]"
ParseElements(toks, i, acc) ==
  LET r == ParseValue(toks, i) IN
  IF ~r.ok THEN ParseFail
  ELSE LET acc2 == Append(acc, r.val) IN
       IF IsP(toks, r.nxt, "]") THEN ParseOk(PyList(acc2), r.nxt + 1)
       ELSE IF IsP(toks, r.nxt, ",") THEN ParseElements(toks, r.nxt + 1, acc2)
       ELSE ParseFail

ParseValue(toks, i) ==
  IF i > Len(toks) THEN ParseFail
  ELSE LET k == toks[i] IN
       CASE k.t = "s" -> ParseOk(PyStr(k.v), i + 1)
         [] k.t = "n" -> ParseOk(PyInt(k.n), i + 1)
         [] k.t = "lit" -> ParseOk(PyNone, i + 1)
         [] k = P("{") ->
              IF IsP(toks, i + 1, "}") THEN ParseOk(PyDict(<<>>), i + 2)
              ELSE ParseMembers(toks, i + 1, PyDict(<<>>))
         [] k = P("[") ->
              IF IsP(toks, i + 1, "]") THEN ParseOk(PyList(<<>>), i + 2)
              ELSE ParseElements(toks, i + 1, <<>>)
         [] OTHER -> ParseFail

IsNotWs(k) == k.t # "ws"

\* json.loads(raw) for raw bytes: the bytes are decoded as UTF-8 first
\* (UnicodeDecodeError), then the text is parsed (JSONDecodeError, also for
\* data after the value).
JsonLoads(raw) ==
  IF \E i \in 1..Len(raw) : raw[i].t = "bad"
  THEN [exc |-> "UnicodeDecodeError", val |-> PyNone]
  ELSE LET toks == SelectSeq(raw, IsNotWs)
           r == ParseValue(toks, 1)
       IN IF r.ok /\ r.nxt = Len(toks) + 1
          THEN [exc |-> "none", val |-> r.val]
          ELSE [exc |-> "JSONDecodeError", val |-> PyNone]

RECURSIVE Dumps(_, _, _)
RECURSIVE DumpItems(_, _, _, _)

\* the items of a non-empty dict or list from position i on, each preceded by
\* its separator; indent < 0 is json.dumps' compact layout (", " and ": ")
DumpItems(v, i, indent, level) ==
  IF i > Len(v.items) THEN <<>>
  ELSE LET sep == IF indent < 0
                  THEN (IF i = 1 THEN <<>> ELSE <<P(","), Sp>>)
                  ELSE (IF i = 1 THEN <<>> ELSE <<P(",")>>) \o <<Nl(indent * (level + 1))>>
           key == IF v.ty = "dict" THEN <<S(v.items[i][1]), P(":"), Sp>> ELSE <<>>
       IN sep \o key \o Dumps(v.items[i][2], indent, level + 1)
              \o DumpItems(v, i + 1, indent, level)

\* json.dumps(v, indent=indent) at nesting depth level
Dumps(v, indent, level) ==
  CASE v.ty = "str" -> <<S(v.s)>>
    [] v.ty = "int" -> <<N(v.n)>>
    [] v.ty = "none" -> <<Null>>
    [] OTHER ->
         LET open == IF v.ty = "dict" THEN P("{") ELSE P("[")
             close == IF v.ty = "dict" THEN P("}") ELSE P("]")
         IN IF Len(v.items) = 0 THEN <<open, close>>
            ELSE <<open>> \o DumpItems(v, 1, indent, level)
                 \o (IF indent < 0 THEN <<>> ELSE <<Nl(indent * level)>>)
                 \o <<close>>

\* json.dumps(v)
JsonDumps(v) == Dumps(v, -1, 0)


\* ========================================================================
\* playground/proxy.py
\* ========================================================================
ALLOWED_HOSTS ==
  {<<"api.openai.com">>, <<"api.anthropic.com">>,
   <<"generativelanguage.googleapis.com">>}

\* units of a URL that are names: letters, digits, "+", "-", "."
NameUnits ==
  {"https", "http", "api.openai.com", "API.OpenAI.com", "api.anthropic.com",
   "generativelanguage.googleapis.com", "evil.example.com", "v1", "user"}

\* units that consist of digits
DigitUnits == {"443"}

\* str.lower() of a unit
Lower(u) == IF u = "API.OpenAI.com" THEN "api.openai.com" ELSE u

\* str.capitalize() of a header name
Capitalize(u) ==
  CASE u = "accept-encoding" -> "Accept-encoding"
    [] u = "Accept-Encoding" -> "Accept-encoding"
    [] u = "x-api-key" -> "X-api-key"
    [] OTHER -> u

\* the first position >= from of a unit of set in seq, or Len(seq) + 1
FirstIdx(seq, set, from) ==
  IF \E i \in from..Len(seq) : seq[i] \in set
  THEN CHOOSE i \in from..Len(seq) :
         seq[i] \in set /\ \A j \in from..(i - 1) : seq[j] \notin set
  ELSE Len(seq) + 1

\* the last position of a unit of set in seq, or 0
LastIdx(seq, set) ==
  IF \E i \in 1..Len(seq) : seq[i] \in set
  THEN CHOOSE i \in 1..Len(seq) :
         seq[i] \in set /\ \A j \in (i + 1)..Len(seq) : seq[j] \notin set
  ELSE 0

\* urlsplit(url).netloc: a scheme is split off at the first ":" when what
\* precedes it starts with a letter and holds scheme characters only; the
\* netloc follows a leading "//" and ends before the first "/", "?" or "#"
Netloc(url) ==
  LET i == FirstIdx(url, {":"}, 1)
      hasScheme == /\ 1 < i /\ i <= Len(url)
                   /\ url[1] \in NameUnits
                   /\ \A j \in 1..(i - 1) : url[j] \in NameUnits \cup DigitUnits
      rest == IF hasScheme THEN SubSeq(url, i + 1, Len(url)) ELSE url
  IN IF Len(rest) >= 1 /\ rest[1] = "//"
     THEN SubSeq(rest, 2, FirstIdx(rest, {"/", "//", "?", "#"}, 2) - 1)
     ELSE <<>>

\* urlparse(url).hostname: the netloc after its last "@", up to its first
\* ":", lower-cased; None when empty
Hostname(url) ==
  LET netloc == Netloc(url)
      hostinfo == SubSeq(netloc, LastIdx(netloc, {"@"}) + 1, Len(netloc))
      name == SubSeq(hostinfo, 1, FirstIdx(hostinfo, {":"}, 1) - 1)
  IN IF name = <<>> THEN PyNone
     ELSE PyStr([i \in 1..Len(name) |-> Lower(name[i])])

\* urllib.request.Request(url) raises ValueError("unknown url type") unless
\* the URL starts with "<type>:", the type holding neither "/" nor ":"
HasUrlType(url) ==
  LET i == FirstIdx(url, {":"}, 1) IN
  /\ 1 < i /\ i <= Len(url)
  /\ \A j \in 1..(i - 1) : url[j] \notin {"/", "//"}

\* str(host) inside the f-string of the 403 body
HostText(host) == IF host.ty = "none" THEN <<"None">> ELSE host.s

NoResponse == [status |-> 0, headers |-> <<>>, body |-> <<>>]

\* _cors_headers
CorsHeaders ==
  << <<"Access-Control-Allow-Origin", <<"*">> >>,
     <<"Access-Control-Allow-Methods", <<"POST, OPTIONS">> >>,
     <<"Access-Control-Allow-Headers", <<"Content-Type">> >> >>

NoUpstream == [kind |-> "none", status |-> 0, ctype |-> PyNone, body |-> <<>>]

\* what a handler leaves behind: the response written, the outbound requests
\* issued, what the target answered, and the exception that left the handler
Handled(response, outbound, up, exc) ==
  [response |-> response, outbound |-> outbound, upstream |-> up, exc |-> exc]

\* do_OPTIONS without the call of _cors_headers
DoOptionsWithoutCors(req) ==
  Handled([status |-> 204, headers |-> <<>>, body |-> <<>>],
          <<>>, NoUpstream, "none")

\* do_OPTIONS
DoOptions(req) ==
  Handled([status |-> 204, headers |-> CorsHeaders, body |-> <<>>],
          <<>>, NoUpstream, "none")

\* the Request built from the payload: add_header capitalizes the name and
\* a later header replaces an earlier one of the same name
RECURSIVE AddHeaders(_, _, _)
AddHeaders(acc, hs, i) ==
  IF i > Len(hs.items) THEN acc
  ELSE AddHeaders(DictSet(acc, <<Capitalize(hs.items[i][1][1])>>, hs.items[i][2]),
                  hs, i + 1)

OutboundRequest(url, headers, body) ==
  [url |-> url,
   data |-> IF body.ty = "str" THEN <<S(body.s)>> ELSE JsonDumps(body),
   headers |-> DictSet(AddHeaders(PyDict(<<>>), headers, 1),
                       <<"Accept-encoding">>, PyStr(<<"identity">>)),
   timeout |-> 120]

\* HostAllowed with a request that names no host let through
HostAllowedOrNone(host) == host.ty = "none" \/ host.s \in ALLOWED_HOSTS

\* host in ALLOWED_HOSTS, for the hostname urlparse gave (None or a str)
HostAllowed(host) == host.ty = "str" /\ host.s \in ALLOWED_HOSTS

\* the response to a request whose target is not allowed
Forbidden(host) ==
  [status |-> 403, headers |-> CorsHeaders,
   body |-> JsonDumps(PyDict(<< <<<<"error">>,
              PyStr(<<"Host not allowed: ">> \o HostText(host))>> >>))]

\* the response to a request whose body json.loads rejects
InvalidJson ==
  [status |-> 400, headers |-> <<>>,
   body |-> <<P("{"), S(<<"error">>), P(":"), S(<<"Invalid JSON">>), P("}")>>]

\* RelayResponse answering 200 whatever the target's status was
RelayResponseAs200(up) ==
  [status |-> 200,
   headers |-> CorsHeaders \o
     (IF up.ctype.ty = "str" /\ up.ctype.s # <<>>
      THEN << <<"Content-Type", up.ctype.s>> >> ELSE <<>>),
   body |-> up.body]

\* the response that relays what the target returned
RelayResponse(up) ==
  [status |-> up.status,
   headers |-> CorsHeaders \o
     (IF up.ctype.ty = "str" /\ up.ctype.s # <<>>
      THEN << <<"Content-Type", up.ctype.s>> >> ELSE <<>>),
   body |-> up.body]

\* RelayError replacing the target's error by one of the proxy
RelayErrorAsBadGateway(up) ==
  [status |-> 502,
   headers |-> CorsHeaders \o << <<"Content-Type", <<"application/json">> >> >>,
   body |-> <<P("{"), S(<<"error">>), P(":"), S(<<"Upstream error">>), P("}")>>]

\* the response that relays the HTTPError urlopen raised
RelayError(up) ==
  [status |-> up.status,
   headers |-> CorsHeaders \o << <<"Content-Type", <<"application/json">> >> >>,
   body |-> up.body]

\* the part of do_POST after the host check: build the request, call the
\* target, relay what it answered
Relay(url, headers, body, up) ==
  IF ~HasUrlType(url.s) THEN Handled(NoResponse, <<>>, NoUpstream, "ValueError")
  ELSE IF headers.ty # "dict"
  THEN Handled(NoResponse, <<>>, NoUpstream, "AttributeError")
  ELSE LET req == OutboundRequest(url.s, headers, body) IN
       CASE up.kind = "response" -> Handled(RelayResponse(up), <<req>>, up, "none")
         [] up.kind = "HTTPError" -> Handled(RelayError(up), <<req>>, up, "none")
         [] OTHER -> Handled(NoResponse, <<req>>, up, "URLError")

\* the first content_length units of the request body (rfile.read(length))
ReadBody(req) ==
  IF req.content_length < 0 THEN <<>>
  ELSE SubSeq(req.body, 1, req.content_length)

\* do_POST
DoPost(req, up) ==
  IF req.path # "/proxy"
  THEN Handled([status |-> 404, headers |-> <<>>, body |-> <<>>],
               <<>>, NoUpstream, "none")
  ELSE LET loaded == JsonLoads(ReadBody(req)) IN
       IF loaded.exc = "JSONDecodeError"
       THEN Handled(InvalidJson, <<>>, NoUpstream, "none")
       ELSE IF loaded.exc # "none"
       THEN Handled(NoResponse, <<>>, NoUpstream, loaded.exc)
       ELSE IF loaded.val.ty # "dict"
       THEN Handled(NoResponse, <<>>, NoUpstream, "AttributeError")
       ELSE LET payload == loaded.val
                url == DictGet(payload, <<"url">>, PyStr(<<>>))
                headers == DictGet(payload, <<"headers">>, PyDict(<<>>))
                body == DictGet(payload, <<"body">>, PyStr(<<>>))
            IN IF url.ty # "str"
               THEN Handled(NoResponse, <<>>, NoUpstream, "AttributeError")
               ELSE LET host == Hostname(url.s) IN
                    IF ~HostAllowed(host)
                    THEN Handled(Forbidden(host), <<>>, NoUpstream, "none")
                    ELSE Relay(url, headers, body, up)

\* ========================================================================
\* refresh.py
\* ========================================================================
\* PRICING_URLS, in the order the table is iterated
Providers ==
  <<"openai", "anthropic", "google", "mistral", "deepseek", "cohere",
    "meta_fireworks">>

\* the exceptions fetch_url catches
CaughtByFetch == {"URLError", "HTTPError", "OSError"}

\* a line of standard output, or of a list of change descriptions: the
\* function that produced it (by), what it says (k) and the values formatted
\* into it (a)
Line(by, k, a) == [by |-> by, k |-> k, a |-> a]

\* PRICE_FIELDS with the context window merged as well
PRICE_FIELDS_AndContext == <<"input_per_mtok", "output_per_mtok", "context_window">>

\* PRICE_FIELDS without the output price
PRICE_FIELDS_InputOnly == <<"input_per_mtok">>

\* the fields merge_updates compares and overwrites
PRICE_FIELDS == <<"input_per_mtok", "output_per_mtok">>

DIFF_FIELDS == <<"input_per_mtok", "output_per_mtok", "context_window">>

Models(data) == DictGet(data, <<"models">>, PyList(<<>>))

ModelName(m) == DictGet(m, <<"model">>, PyNone)

\* {m["model"]: m for m in data["models"]}, as the position of the record
\* each name refers to: a later record of the same name replaces an earlier
RECURSIVE ModelIndexFrom(_, _, _)
ModelIndexFrom(models, i, acc) ==
  IF i > ListLen(models) THEN acc
  ELSE ModelIndexFrom(models, i + 1,
                      DictSet(acc, ModelName(ListAt(models, i)).s, PyInt(i)))

ModelIndex(data) == ModelIndexFrom(Models(data), 1, PyDict(<<>>))

\* StoreField with the assignment left out
StoreFieldNowhere(m, field, value) == m

\* m[field] = new_prices[field]
StoreField(m, field, value) == DictSet(m, field, value)

\* the loop over the two price fields for one model of the update set:
\* st is [m |-> the record, changes |-> the change lines so far]
RECURSIVE MergeFields(_, _, _, _)
MergeFields(st, model_name, new_prices, f) ==
  IF f > Len(PRICE_FIELDS) THEN st
  ELSE LET field == <<PRICE_FIELDS[f]>>
           old_val == DictGet(st.m, field, PyNone)
       IN IF DictHas(new_prices, field) /\ DictGet(new_prices, field, PyNone) # old_val
          THEN MergeFields(
                 [m |-> StoreField(st.m, field, DictGet(new_prices, field, PyNone)),
                  changes |-> Append(st.changes,
                    Line("merge_updates", "change", <<PyStr(model_name), PyStr(field), old_val,
                                     DictGet(new_prices, field, PyNone)>>))],
                 model_name, new_prices, f + 1)
          ELSE MergeFields(st, model_name, new_prices, f + 1)

\* the loop over updates.items(): st is [data |-> ..., changes |-> ...]
RECURSIVE MergeFrom(_, _, _, _)
MergeFrom(st, model_index, updates, i) ==
  IF i > Len(updates.items) THEN st
  ELSE LET model_name == updates.items[i][1]
           new_prices == updates.items[i][2]
       IN IF DictHas(model_index, model_name)
          THEN LET pos == DictGet(model_index, model_name, PyNone).n
                   r == MergeFields([m |-> ListAt(Models(st.data), pos),
                                     changes |-> st.changes],
                                    model_name, new_prices, 1)
               IN MergeFrom(
                    [data |-> DictSet(st.data, <<"models">>,
                                      ListPut(Models(st.data), pos, r.m)),
                     changes |-> r.changes],
                    model_index, updates, i + 1)
          ELSE MergeFrom(
                 [data |-> st.data,
                  changes |-> Append(st.changes,
                                     Line("merge_updates", "NEW MODEL FOUND", <<PyStr(model_name)>>))],
                 model_index, updates, i + 1)

\* merge_updates(data, updates): the dataset afterwards and the list returned
merge_updates(data, updates) ==
  MergeFrom([data |-> data, changes |-> <<>>], ModelIndex(data), updates, 1)

\* {m["model"]: m for m in d["models"]}
RECURSIVE ByNameFrom(_, _, _)
ByNameFrom(models, i, acc) ==
  IF i > ListLen(models) THEN acc
  ELSE ByNameFrom(models, i + 1,
                  DictSet(acc, ModelName(ListAt(models, i)).s, ListAt(models, i)))

ByName(d) == ByNameFrom(Models(d), 1, PyDict(<<>>))

RECURSIVE DiffFields(_, _, _, _)
DiffFields(name, old_m, new_m, f) ==
  IF f > Len(DIFF_FIELDS) THEN <<>>
  ELSE LET field == <<DIFF_FIELDS[f]>>
           o == DictGet(old_m, field, PyNone)
           n == DictGet(new_m, field, PyNone)
       IN (IF o # n THEN <<Line("print_diff", "CHANGED", <<PyStr(name), PyStr(field), o, n>>)>>
           ELSE <<>>)
          \o DiffFields(name, old_m, new_m, f + 1)

RECURSIVE DiffFrom(_, _, _)
DiffFrom(old_models, new_models, i) ==
  IF i > Len(new_models.items) THEN <<>>
  ELSE LET name == new_models.items[i][1] IN
       (IF DictHas(old_models, name)
        THEN DiffFields(name, DictGet(old_models, name, PyNone),
                        new_models.items[i][2], 1)
        ELSE <<>>)
       \o DiffFrom(old_models, new_models, i + 1)

\* print_diff(old_data, new_data): the lines it prints
print_diff(old_data, new_data) ==
  LET lines == DiffFrom(ByName(old_data), ByName(new_data), 1) IN
  IF lines = <<>> THEN <<Line("print_diff", "No pricing changes detected.", <<>>)>> ELSE lines

\* ========================================================================
\* State
\* ========================================================================
VARIABLES
  \* proxy.py: the server handles one request at a time
  ppc,          \* "idle", "received" (a request was read), "done"
  inbound,      \* the request being handled
  response,     \* the response written to the client (status 0: none)
  outbound,     \* the requests issued to targets while handling inbound
  upstream,     \* what the target answered to the outbound request
  pexc,         \* the exception that left the handler ("none": none)
  \* refresh.py main(): one run with --dry-run and one without, side by side,
  \* each on its own copy of data.json, with the same inputs.  run[m] holds
  \*   dry_run, data, old_data, all_updates : the variables of main()
  \*   rpc      : where main() is
  \*   disk     : data.json
  \*   provider : the position in PRICING_URLS of the next provider
  \*   stdout   : the lines printed
  \*   fetched  : the providers fetch_url was called for, with the outcome
  \*   parsed   : the providers whose parser was called
  \*   writes   : for each save_data call, how many lines had been printed
  \*   rexc     : the exception that ended main() ("none": none)
  \*   today    : the date date.today() gave
  \*   disk0    : data.json as it was when the run started
  run,
  \* merge_updates called repeatedly on one dataset with one update set
  mdata,        \* the dataset
  mupdates,     \* the update set
  mhist,        \* the dataset before the first call and after each call
  mreturned     \* the list each call returned

proxyVars == <<ppc, inbound, response, outbound, upstream, pexc>>

refreshVars == <<run>>

mergeVars == <<mdata, mupdates, mhist, mreturned>>

vars == <<proxyVars, refreshVars, mergeVars>>

\* ------------------------------------------------------------------------
\* proxy.py: requests, targets, actions
\* ------------------------------------------------------------------------
NoRequest == [method |-> "", path |-> "", content_length |-> -1, body |-> <<>>]

Urls ==
  {<<"https", ":", "//", "api.openai.com", "/", "v1">>,
   <<"https", ":", "//", "API.OpenAI.com", ":", "443", "/", "v1">>,
   <<"https", ":", "//", "user", "@", "generativelanguage.googleapis.com", "/", "v1">>,
   <<"//", "api.anthropic.com", "/", "v1">>,
   <<"https", ":", "//", "evil.example.com", "/", "v1">>,
   <<"https", ":", "//", "api.openai.com", "@", "evil.example.com", "/", "v1">>,
   <<"https", ":", "//", "evil.example.com", "/", "?", "api.openai.com">>,
   <<"api.openai.com", "/", "v1">>,
   <<>>}

OpenAiUrl == <<"https", ":", "//", "api.openai.com", "/", "v1">>

Payload(url, headers, body) ==
  PyDict(<< <<<<"url">>, url>>, <<<<"headers">>, headers>>, <<<<"body">>, body>> >>)

ApiKeyHeaders == PyDict(<< <<<<"x-api-key">>, PyStr(<<"k">>)>> >>)

\* JSON bodies a client may post
Payloads ==
  {Payload(PyStr(u), ApiKeyHeaders, PyStr(<<"{}">>)) : u \in Urls}
  \cup
  {PyDict(<< <<<<"headers">>, ApiKeyHeaders>>, <<<<"body">>, PyStr(<<"{}">>)>> >>),
   PyDict(<< <<<<"url">>, PyStr(OpenAiUrl)>> >>),
   Payload(PyStr(OpenAiUrl),
           PyDict(<< <<<<"Accept-Encoding">>, PyStr(<<"gzip">>)>> >>),
           PyDict(<< <<<<"a">>, PyInt(1)>> >>)),
   Payload(PyStr(OpenAiUrl), PyStr(<<"x">>), PyStr(<<>>)),
   Payload(PyInt(5), ApiKeyHeaders, PyStr(<<>>)),
   PyList(<<>>),
   PyStr(OpenAiUrl)}

\* bodies that are not JSON
MalformedBodies ==
  {<<>>,
   <<P("{"), S(<<"url">>), P(":")>>,
   <<P("{"), P("}"), P("{"), P("}")>>,
   <<S(<<"url">>), P(":"), S(OpenAiUrl)>>,
   <<BadByte>>,
   <<P("{"), S(<<"url">>), P(":"), BadByte, P("}")>>}

RequestBodies == {JsonDumps(p) : p \in Payloads} \cup MalformedBodies

\* content_length -1: the request has no Content-Length header
Requests ==
  UNION {{[method |-> m, path |-> p, content_length |-> n, body |-> b] :
            m \in {"OPTIONS", "POST"}, p \in {"/proxy", "/other"},
            n \in {-1, Len(b)}} : b \in RequestBodies}

TargetBodies ==
  {<<P("{"), S(<<"ok">>), P(":"), N(1), P("}")>>, <<S(<<"caf">>), BadByte>>, <<>>}

\* what urlopen can do with a request: return a response, raise HTTPError
\* for an error status, or raise URLError when the target cannot be reached
TargetOutcomes ==
  {[kind |-> "response", status |-> s, ctype |-> c, body |-> b] :
     s \in {200, 201},
     c \in {PyNone, PyStr(<<>>), PyStr(<<"application/json">>),
            PyStr(<<"text/event-stream">>)},
     b \in TargetBodies}
  \cup
  {[kind |-> "HTTPError", status |-> s, ctype |-> c, body |-> b] :
     s \in {401, 500}, c \in {PyNone, PyStr(<<"text/html">>)}, b \in TargetBodies}
  \cup
  {[kind |-> "URLError", status |-> 0, ctype |-> PyNone, body |-> <<>>]}

ProxyIdle ==
  /\ ppc = "idle"
  /\ inbound = NoRequest
  /\ response = NoResponse
  /\ outbound = <<>>
  /\ upstream = NoUpstream
  /\ pexc = "none"

\* the server reads the next request
Receive ==
  /\ ppc \in {"idle", "done"}
  /\ \E r \in Requests : inbound' = r
  /\ ppc' = "received"
  /\ response' = NoResponse
  /\ outbound' = <<>>
  /\ upstream' = NoUpstream
  /\ pexc' = "none"
  /\ UNCHANGED <<refreshVars, mergeVars>>

Finish(h) ==
  /\ ppc' = "done"
  /\ response' = h.response
  /\ outbound' = h.outbound
  /\ upstream' = h.upstream
  /\ pexc' = h.exc
  /\ UNCHANGED <<inbound, refreshVars, mergeVars>>

do_OPTIONS ==
  /\ ppc = "received"
  /\ inbound.method = "OPTIONS"
  /\ Finish(DoOptions(inbound))

do_POST ==
  /\ ppc = "received"
  /\ inbound.method = "POST"
  /\ \E up \in TargetOutcomes : Finish(DoPost(inbound, up))

NextProxy == Receive \/ do_OPTIONS \/ do_POST

\* ------------------------------------------------------------------------
\* refresh.py: datasets and update sets
\* ------------------------------------------------------------------------
\* prices range over 1..MaxPrice
MaxPrice == 2

\* merge_updates is called up to MaxCalls times on one dataset
MaxCalls == 2

\* a fetched page holds up to MaxMatches matches of parse_deepseek's pattern
MaxMatches == 1

Key(k, v) == <<<<k>>, v>>

\* a model record of data.json; price 0 stands for a record without the field
ModelRecord(name, inp, outp) ==
  PyDict(<<Key("model", PyStr(<<name>>))>>
         \o (IF inp > 0 THEN <<Key("input_per_mtok", PyInt(inp))>> ELSE <<>>)
         \o (IF outp > 0 THEN <<Key("output_per_mtok", PyInt(outp))>> ELSE <<>>)
         \o <<Key("context_window", PyInt(128)),
              Key("notes", PyStr(<<"curated">>))>>)

Dataset(records, last_updated) ==
  PyDict(<<Key("models", PyList(records)),
           Key("last_updated", PyStr(<<last_updated>>))>>)

RecordOptions(name) ==
  IF name = "gpt-4o"
  THEN {ModelRecord(name, i, o) : i \in 0..MaxPrice, o \in 1..MaxPrice}
  ELSE {ModelRecord(name, i, MaxPrice) : i \in 1..MaxPrice}

\* the model name is the key of a record: a dataset holds a name once
RecordLists ==
  {<<>>}
  \cup {<<r>> : r \in RecordOptions("gpt-4o") \cup RecordOptions("o1")}
  \cup {<<r1, r2>> : r1 \in RecordOptions("o1"), r2 \in RecordOptions("gpt-4o")}

Datasets == {Dataset(recs, "2025-01-01") : recs \in RecordLists}

\* what a parser reports for one model; price 0: the field is not reported
Prices(inp, outp, ctx) ==
  PyDict((IF inp > 0 THEN <<Key("input_per_mtok", PyInt(inp))>> ELSE <<>>)
         \o (IF outp > 0 THEN <<Key("output_per_mtok", PyInt(outp))>> ELSE <<>>)
         \o (IF ctx THEN <<Key("context_window", PyInt(256))>> ELSE <<>>))

PriceOptions(name) ==
  CASE name = "gpt-4o" ->
         {Prices(i, o, c) : i \in 0..MaxPrice, o \in 0..MaxPrice, c \in BOOLEAN}
    [] name = "o1" -> {Prices(i, 0, FALSE) : i \in 0..MaxPrice}
    [] OTHER -> {Prices(i, 0, FALSE) : i \in 0..1}

AnyPrices == UNION {PriceOptions(n) : n \in {"gpt-4o", "o1", "new-model"}}

NameOrders ==
  {<<>>, <<"gpt-4o">>, <<"new-model">>,
   <<"gpt-4o", "o1">>, <<"new-model", "gpt-4o">>,
   <<"o1", "new-model", "gpt-4o">>}

UpdateSets ==
  UNION {{PyDict([i \in 1..Len(ord) |-> Key(ord[i], f[i])]) :
            f \in {g \in [1..Len(ord) -> AnyPrices] :
                     \A i \in 1..Len(ord) : g[i] \in PriceOptions(ord[i])}} :
         ord \in NameOrders}

MergeIdle ==
  /\ mdata = PyNone
  /\ mupdates = PyNone
  /\ mhist = <<>>
  /\ mreturned = <<>>

InitMerge ==
  /\ mdata \in Datasets
  /\ mupdates \in UpdateSets
  /\ mhist = <<mdata>>
  /\ mreturned = <<>>

\* changes = merge_updates(data, updates)
MergeCall ==
  /\ Len(mreturned) < MaxCalls
  /\ LET r == merge_updates(mdata, mupdates) IN
       /\ mdata' = r.data
       /\ mhist' = Append(mhist, r.data)
       /\ mreturned' = Append(mreturned, r.changes)
  /\ UNCHANGED <<mupdates, proxyVars, refreshVars>>

\* ------------------------------------------------------------------------
\* refresh.py: main()
\* ------------------------------------------------------------------------
\* "dry": python3 refresh.py --dry-run; "normal": python3 refresh.py
Modes == {"dry", "normal"}

\* date.today().isoformat()
Dates == {"2025-01-01", "2025-06-01"}

MissingFile == [exists |-> FALSE, text |-> <<>>]

File(text) == [exists |-> TRUE, text |-> text]

\* what save_data writes: json.dump(data, f, indent=2) and a newline
Saved(d) == File(Dumps(d, 2, 0) \o <<Nl(0)>>)

\* data.json as the runs may find it
InitialFiles ==
  {MissingFile,
   File(<<P("{"), S(<<"models">>), P(":"), P("[")>>),
   File(JsonDumps(PyDict(<<>>))),
   Saved(Dataset(<<ModelRecord("gpt-4o", 2, 1), ModelRecord("o1", 0, 2)>>,
                 "2025-01-01")),
   File(JsonDumps(Dataset(<<ModelRecord("o1", 1, 1)>>, "2024-12-31")))}

\* what urlopen and read can do inside fetch_url: return a page, or raise
\* HTTPError (an error status), URLError (the host cannot be reached) or
\* IncompleteRead (the connection closes before the announced length was
\* read: an http.client.HTTPException, which is not an OSError)
Raised == {"HTTPError", "URLError", "IncompleteRead"}

FetchOutcomes ==
  {[kind |-> "page", price_refs |-> n] : n \in 0..MaxMatches}
  \cup {[kind |-> e, price_refs |-> 0] : e \in Raised}

\* load_data(): open(DATA_PATH) and json.load
load_data(file) ==
  IF ~file.exists THEN [exc |-> "FileNotFoundError", val |-> PyNone]
  ELSE JsonLoads(file.text)

\* fetch_url(url): the page, or None after a warning; exc is the exception
\* that leaves fetch_url
fetch_url(p, out) ==
  CASE out.kind = "page" -> [html |-> out, isNone |-> FALSE, lines |-> <<>>, exc |-> "none"]
    [] out.kind \in CaughtByFetch ->
         [html |-> out, isNone |-> TRUE, exc |-> "none",
          lines |-> <<Line("fetch_url", "[WARN] Failed to fetch",
                           <<PyStr(<<p>>), PyStr(<<out.kind>>)>>)>>]
    [] OTHER -> [html |-> out, isNone |-> TRUE, lines |-> <<>>, exc |-> out.kind]

\* PARSERS[p](html): every parser returns an empty dict; parse_deepseek
\* reports how many price references the page holds
Parser(p, html) ==
  [updates |-> PyDict(<<>>),
   lines |-> IF p = "deepseek" /\ html.price_refs > 0
             THEN <<Line(p, "[INFO] found price references, manual review recommended",
                         <<PyInt(html.price_refs)>>)>>
             ELSE <<Line(p, "[INFO] page fetched, manual review recommended", <<>>)>>]

\* d.update(other)
RECURSIVE DictUpdateFrom(_, _, _)
DictUpdateFrom(d, other, i) ==
  IF i > Len(other.items) THEN d
  ELSE DictUpdateFrom(DictSet(d, other.items[i][1], other.items[i][2]), other, i + 1)

DictUpdate(d, other) == DictUpdateFrom(d, other, 1)

Main(k, a) == Line("main", k, a)

Raise(r, e) == [r EXCEPT !.rpc = "aborted", !.rexc = e]

\* main(), lines 205-215: load the dataset and keep a copy
LoadStep(r) ==
  LET loaded == load_data(r.disk)
      banner == <<Main("LLM Dashboard - Data Refresh", <<>>), Main("====", <<>>)>>
  IN IF loaded.exc # "none"
     THEN Raise([r EXCEPT !.stdout = @ \o banner], loaded.exc)
     ELSE IF loaded.val.ty # "dict"
             \/ ~DictHas(loaded.val, <<"models">>)
             \/ ~DictHas(loaded.val, <<"last_updated">>)
     THEN Raise([r EXCEPT !.stdout = @ \o banner, !.data = loaded.val,
                          !.old_data = loaded.val], "KeyError")
     ELSE [r EXCEPT
             !.data = loaded.val,
             !.old_data = loaded.val,
             !.stdout = @ \o banner \o
               <<Main("Loaded models from data.json",
                      <<PyInt(ListLen(Models(loaded.val)))>>),
                 Main("Last updated:",
                      <<DictGet(loaded.val, <<"last_updated">>, PyNone)>>),
                 Main("", <<>>)>>,
             !.all_updates = PyDict(<<>>),
             !.provider = 1,
             !.rpc = "fetch"]

\* main(), lines 219-232: one iteration of the loop over PRICING_URLS
FetchStep(r, out) ==
  LET p == Providers[r.provider]
      got == fetch_url(p, out)
      r1 == [r EXCEPT
               !.stdout = @ \o <<Main("Fetching", <<PyStr(<<p>>)>>)>> \o got.lines,
               !.fetched = Append(@, <<p, out.kind>>)]
      last == r.provider = Len(Providers)
      \* the continue or the end of the loop body
      r2 == [r1 EXCEPT
               !.provider = IF last THEN @ ELSE @ + 1,
               !.rpc = IF last THEN "merge" ELSE "fetch",
               !.stdout = IF last THEN @ \o <<Main("", <<>>)>> ELSE @]
  IN IF got.exc # "none" THEN Raise(r1, got.exc)
     ELSE IF got.isNone THEN r2
     ELSE LET res == Parser(p, got.html) IN
          [r2 EXCEPT
             !.parsed = Append(@, p),
             !.all_updates = DictUpdate(@, res.updates),
             !.stdout = r1.stdout \o res.lines
                        \o (IF Len(res.updates.items) > 0
                            THEN <<Main("Found model price updates",
                                        <<PyInt(Len(res.updates.items))>>)>>
                            ELSE <<>>)
                        \o (IF last THEN <<Main("", <<>>)>> ELSE <<>>)]

\* main(), lines 235-246: merge the updates
MergeStep(r) ==
  IF Len(r.all_updates.items) > 0
  THEN LET res == merge_updates(r.data, r.all_updates) IN
       [r EXCEPT
          !.data = res.data,
          !.stdout = @ \o (IF Len(res.changes) > 0
                           THEN <<Main("Changes detected:", <<>>)>> \o res.changes
                           ELSE <<Main("No price changes to apply.", <<>>)>>),
          !.rpc = "stamp"]
  ELSE [r EXCEPT
          !.stdout = @ \o <<Main("No automated price updates extracted.", <<>>),
                            Main("(This is normal)", <<>>),
                            Main("Tip: Update data.json manually", <<>>)>>,
          !.rpc = "stamp"]

\* main(), line 249: data["last_updated"] = date.today().isoformat()
StampStep(r, today) ==
  [r EXCEPT !.data = DictSet(@, <<"last_updated">>, PyStr(<<today>>)),
            !.today = today,
            !.rpc = "diff"]

\* main(), lines 251-253
DiffStep(r) ==
  [r EXCEPT
     !.stdout = @ \o <<Main("", <<>>), Main("Diff summary:", <<>>)>>
                  \o print_diff(r.old_data, r.data),
     !.rpc = "save"]

\* SaveStep writing data.json in a dry run too
SaveStepAlways(r) ==
  [r EXCEPT
     !.disk = Saved(r.data),
     !.writes = Append(@, Len(r.stdout)),
     !.stdout = @ \o <<Main("", <<>>),
                       Main("Updated data.json",
                            <<DictGet(r.data, <<"last_updated">>, PyNone)>>),
                       Main("Run git diff data.json to review changes.", <<>>)>>,
     !.rpc = "done"]

\* main(), lines 255-262
SaveStep(r) ==
  IF ~r.dry_run
  THEN [r EXCEPT
          !.disk = Saved(r.data),
          !.writes = Append(@, Len(r.stdout)),
          !.stdout = @ \o <<Main("", <<>>),
                            Main("Updated data.json",
                                 <<DictGet(r.data, <<"last_updated">>, PyNone)>>),
                            Main("Run git diff data.json to review changes.", <<>>)>>,
          !.rpc = "done"]
  ELSE [r EXCEPT
          !.stdout = @ \o <<Main("", <<>>),
                            Main("[DRY RUN] No changes written to disk.", <<>>)>>,
          !.rpc = "done"]

\* a run before main() starts
NewRun(m, file) ==
  [dry_run |-> (m = "dry"), rpc |-> "start", disk |-> file, data |-> PyNone,
   old_data |-> PyNone, all_updates |-> PyNone, provider |-> 0,
   stdout |-> <<>>, fetched |-> <<>>, parsed |-> <<>>, writes |-> <<>>,
   rexc |-> "none", today |-> "", disk0 |-> file]

RefreshIdle == run = [m \in Modes |-> NewRun(m, MissingFile)]

At(pos) == {m \in Modes : run[m].rpc = pos} # {}

Load ==
  /\ At("start")
  /\ run' = [m \in Modes |->
               IF run[m].rpc = "start" THEN LoadStep(run[m]) ELSE run[m]]
  /\ UNCHANGED <<proxyVars, mergeVars>>

\* both runs get the same answer from the provider
Fetch ==
  /\ At("fetch")
  /\ \E out \in FetchOutcomes :
       run' = [m \in Modes |->
                 IF run[m].rpc = "fetch" THEN FetchStep(run[m], out) ELSE run[m]]
  /\ UNCHANGED <<proxyVars, mergeVars>>

Merge ==
  /\ At("merge")
  /\ run' = [m \in Modes |->
               IF run[m].rpc = "merge" THEN MergeStep(run[m]) ELSE run[m]]
  /\ UNCHANGED <<proxyVars, mergeVars>>

\* both runs run on the same day
Stamp ==
  /\ At("stamp")
  /\ \E today \in Dates :
       run' = [m \in Modes |->
                 IF run[m].rpc = "stamp" THEN StampStep(run[m], today) ELSE run[m]]
  /\ UNCHANGED <<proxyVars, mergeVars>>

Diff ==
  /\ At("diff")
  /\ run' = [m \in Modes |->
               IF run[m].rpc = "diff" THEN DiffStep(run[m]) ELSE run[m]]
  /\ UNCHANGED <<proxyVars, mergeVars>>

Save ==
  /\ At("save")
  /\ run' = [m \in Modes |->
               IF run[m].rpc = "save" THEN SaveStep(run[m]) ELSE run[m]]
  /\ UNCHANGED <<proxyVars, mergeVars>>

NextRefresh == Load \/ Fetch \/ Merge \/ Stamp \/ Diff \/ Save

InitProxy == ProxyIdle /\ RefreshIdle /\ MergeIdle

SpecProxy == InitProxy /\ [][NextProxy]_vars

NextMerge == MergeCall

InitMergeSpec == ProxyIdle /\ RefreshIdle /\ InitMerge

SpecMerge == InitMergeSpec /\ [][NextMerge]_vars

\* both runs start on the same data.json
InitRefresh ==
  /\ ProxyIdle
  /\ MergeIdle
  /\ \E f \in InitialFiles : run = [m \in Modes |-> NewRun(m, f)]

SpecRefresh == InitRefresh /\ [][NextRefresh]_vars

\* ========================================================================
\* Properties of the proxy (checked under SpecProxy)
\* ========================================================================
HasHeader(name, value) ==
  \E i \in 1..Len(response.headers) : response.headers[i] = <<name, value>>

HasCors ==
  /\ HasHeader("Access-Control-Allow-Origin", <<"*">>)
  /\ HasHeader("Access-Control-Allow-Methods", <<"POST, OPTIONS">>)
  /\ HasHeader("Access-Control-Allow-Headers", <<"Content-Type">>)

\* a POST to /proxy has been handled
PostedToProxy ==
  ppc = "done" /\ inbound.method = "POST" /\ inbound.path = "/proxy"

\* what the posted body decodes to
Posted == JsonLoads(ReadBody(inbound))

\* the body is a JSON object whose url is a string, or that has no url
NamesUrl ==
  /\ Posted.exc = "none"
  /\ Posted.val.ty = "dict"
  /\ DictGet(Posted.val, <<"url">>, PyStr(<<>>)).ty = "str"

TargetUrl == DictGet(Posted.val, <<"url">>, PyStr(<<>>)).s

TargetHost == Hostname(TargetUrl)

Listed(host) == host.ty = "str" /\ host.s \in ALLOWED_HOSTS

ErrorBody(text) == PyDict(<< <<<<"error">>, PyStr(text)>> >>)

Relayed == ppc = "done" /\ upstream.kind = "response"

\* C2 as stated: a successful upstream response is relayed with the same
\* status and the same body bytes, with the cross-origin headers, and with
\* the upstream Content-Type whenever the upstream response has one.
C2_RelayedWithContentTypeWhenPresent ==
  Relayed =>
    /\ response.status = upstream.status
    /\ response.body = upstream.body
    /\ HasCors
    /\ (upstream.ctype.ty = "str" => HasHeader("Content-Type", upstream.ctype.s))

\* C2 as amended: a successful upstream response is relayed with the same
\* status and the same body bytes, with the cross-origin headers, and with
\* the upstream Content-Type whenever the upstream response has one whose
\* value is not empty.
C2_RelayedVerbatim ==
  Relayed =>
    /\ response.status = upstream.status
    /\ response.body = upstream.body
    /\ HasCors
    /\ (upstream.ctype.ty = "str" /\ upstream.ctype.s # <<>>
          => HasHeader("Content-Type", upstream.ctype.s))

\* a 201 with an event-stream Content-Type and a body that is not UTF-8
C2_Witness ==
  /\ Relayed
  /\ upstream.status = 201
  /\ upstream.ctype = PyStr(<<"text/event-stream">>)
  /\ upstream.body = <<S(<<"caf">>), BadByte>>
  /\ response.status = 201

\* C3: a POST to /proxy whose body is not JSON is answered 400 with a JSON
\* body {"error": ...}, and no outbound request is issued.
C3_MalformedJsonGets400 ==
  (PostedToProxy /\ Posted.exc # "none") =>
    /\ response.status = 400
    /\ JsonLoads(response.body).exc = "none"
    /\ JsonLoads(response.body).val.ty = "dict"
    /\ DictHas(JsonLoads(response.body).val, <<"error">>)
    /\ outbound = <<>>

\* C4: when the target answers with an error status (urlopen raises
\* HTTPError), the proxy responds with the target's status and the target's
\* error body, with the cross-origin headers and a JSON Content-Type, and no
\* exception leaves the handler.
C4_UpstreamErrorRelayed ==
  (ppc = "done" /\ upstream.kind = "HTTPError") =>
    /\ response.status = upstream.status
    /\ response.body = upstream.body
    /\ HasCors
    /\ HasHeader("Content-Type", <<"application/json">>)
    /\ pexc = "none"

C4_Witness ==
  /\ ppc = "done"
  /\ upstream.kind = "HTTPError"
  /\ upstream.status = 401
  /\ upstream.ctype = PyStr(<<"text/html">>)
  /\ response.status = 401
  /\ response.body = <<P("{"), S(<<"ok">>), P(":"), N(1), P("}")>>

\* C9: an OPTIONS request is answered 204 with exactly the three
\* cross-origin headers and no body, whatever its path, and no outbound
\* request is issued.
C9_PreflightAnswered ==
  (ppc = "done" /\ inbound.method = "OPTIONS") =>
    /\ response.status = 204
    /\ HasCors
    /\ Len(response.headers) = 3
    /\ response.body = <<>>
    /\ outbound = <<>>
    /\ pexc = "none"

C9_Witness ==
  /\ ppc = "done"
  /\ inbound.method = "OPTIONS"
  /\ inbound.path = "/other"
  /\ inbound.content_length > 0
  /\ response.status = 204

\* ========================================================================
\* Properties of merge_updates (checked under SpecMerge)
\* ========================================================================
IsOtherField(item) ==
  item[1] \notin {<<"input_per_mtok">>, <<"output_per_mtok">>}

IsNotModels(item) == item[1] # <<"models">>

Keys(d) == [i \in 1..Len(d.items) |-> d.items[i][1]]

\* the datasets differ in the price fields of their model records at most
SameButPrices(before, after) ==
  /\ Keys(before) = Keys(after)
  /\ SelectSeq(before.items, IsNotModels) = SelectSeq(after.items, IsNotModels)
  /\ ListLen(Models(before)) = ListLen(Models(after))
  /\ \A i \in 1..ListLen(Models(before)) :
       SelectSeq(ListAt(Models(before), i).items, IsOtherField)
         = SelectSeq(ListAt(Models(after), i).items, IsOtherField)

\* C5: after any number of merges, every model record that was in the
\* dataset is still there, at the same place, with every field other than
\* input_per_mtok and output_per_mtok as it was; no record is added or
\* removed, whatever the update set names or carries.
C5_MergeKeepsOtherFields ==
  \A k \in 2..Len(mhist) : SameButPrices(mhist[1], mhist[k])

HasModel(d, name) ==
  \E i \in 1..ListLen(Models(d)) : ModelName(ListAt(Models(d), i)) = PyStr(name)

\* the update set carries a context_window for a model of the dataset and
\* names a model the dataset does not hold, and the merge changed a price
C5_Witness ==
  /\ Len(mhist) >= 2
  /\ HasModel(mhist[1], <<"gpt-4o">>)
  /\ DictHas(mupdates, <<"gpt-4o">>)
  /\ DictHas(DictGet(mupdates, <<"gpt-4o">>, PyNone), <<"context_window">>)
  /\ DictHas(mupdates, <<"new-model">>)
  /\ mhist[2] # mhist[1]

IsNotice(line) == line.k = "NEW MODEL FOUND"

\* C6 as stated: a second merge with the same update set leaves the dataset
\* as the first merge left it and returns no changes.
C6_SecondMergeReturnsNothing ==
  \A k \in 2..Len(mreturned) : mhist[k + 1] = mhist[2] /\ mreturned[k] = <<>>

\* C6 as amended: a second merge with the same update set leaves the dataset
\* as the first merge left it and returns no price change: it returns the
\* "new model found" notices of the first merge again, and nothing else.
C6_SecondMergeChangesNothing ==
  \A k \in 2..Len(mreturned) :
    /\ mhist[k + 1] = mhist[2]
    /\ mreturned[k] = SelectSeq(mreturned[1], IsNotice)

\* the first merge changed a price and reported a new model
C6_Witness ==
  /\ Len(mreturned) >= 2
  /\ mhist[2] # mhist[1]
  /\ \E i \in 1..Len(mreturned[1]) : IsNotice(mreturned[1][i])
  /\ \E i \in 1..Len(mreturned[1]) : ~IsNotice(mreturned[1][i])

RecordOf(d, name) ==
  ListAt(Models(d),
         CHOOSE i \in 1..ListLen(Models(d)) :
           ModelName(ListAt(Models(d), i)) = PyStr(name))

\* how many of the returned lines equal line
Times(returned, line) ==
  Cardinality({i \in 1..Len(returned) : returned[i] = line})

ChangeLine(name, field, old, new) ==
  [by |-> "merge_updates", k |-> "change",
   a |-> <<PyStr(name), PyStr(<<field>>), old, new>>]

NoticeLine(name) ==
  [by |-> "merge_updates", k |-> "NEW MODEL FOUND", a |-> <<PyStr(name)>>]

\* the lines the first merge has to return for the u-th entry of the update
\* set, as a set
ExpectedLines(u) ==
  LET name == mupdates.items[u][1]
      prices == mupdates.items[u][2]
  IN IF HasModel(mhist[1], name)
     THEN {ChangeLine(name, f, DictGet(RecordOf(mhist[1], name), <<f>>, PyNone),
                      DictGet(prices, <<f>>, PyNone)) :
             f \in {g \in {"input_per_mtok", "output_per_mtok"} :
                      /\ DictHas(prices, <<g>>)
                      /\ DictGet(prices, <<g>>, PyNone)
                           # DictGet(RecordOf(mhist[1], name), <<g>>, PyNone)}}
     ELSE {NoticeLine(name)}

\* C10: after a merge, every model named by both the dataset and the update
\* set holds the parsed value in each price field its update carries; the
\* list returned holds exactly one change line for each (model, price field)
\* whose parsed value differed from the stored one and exactly one notice for
\* each name the dataset does not hold; records the update set does not name,
\* and the dataset when no name is known, are as they were.
C10_MergeStoresAndReports ==
  Len(mreturned) >= 1 =>
    LET before == mhist[1]
        after == mhist[2]
        returned == mreturned[1]
        expected == UNION {ExpectedLines(u) : u \in 1..Len(mupdates.items)}
    IN /\ \A u \in 1..Len(mupdates.items) :
            LET name == mupdates.items[u][1]
                prices == mupdates.items[u][2]
            IN HasModel(before, name) =>
                 \A f \in {"input_per_mtok", "output_per_mtok"} :
                   DictHas(prices, <<f>>) =>
                     DictGet(RecordOf(after, name), <<f>>, PyNone)
                       = DictGet(prices, <<f>>, PyNone)
       /\ \A line \in expected : Times(returned, line) = 1
       /\ \A i \in 1..Len(returned) : returned[i] \in expected
       /\ ListLen(Models(after)) = ListLen(Models(before))
       /\ \A i \in 1..ListLen(Models(before)) :
            ~DictHas(mupdates, ModelName(ListAt(Models(before), i)).s) =>
              ListAt(Models(after), i) = ListAt(Models(before), i)
       /\ (\A u \in 1..Len(mupdates.items) : ~HasModel(before, mupdates.items[u][1]))
            => after = before

\* both prices of one model change, the input price field is new to the
\* record, another model is left alone and a new model is reported
C10_Witness ==
  /\ Len(mreturned) >= 1
  /\ Len(mreturned[1]) = 3
  /\ HasModel(mhist[1], <<"gpt-4o">>)
  /\ HasModel(mhist[1], <<"o1">>)
  /\ ~DictHas(RecordOf(mhist[1], <<"gpt-4o">>), <<"input_per_mtok">>)
  /\ DictHas(RecordOf(mhist[2], <<"gpt-4o">>), <<"input_per_mtok">>)
  /\ DictHas(mupdates, <<"new-model">>)
  /\ ~DictHas(mupdates, <<"o1">>)

\* ========================================================================
\* Properties of main() (checked under SpecRefresh)
\* ========================================================================
IsDiffLine(line) == line.by = "print_diff"

\* what print_diff printed
DiffOutput(r) == SelectSeq(r.stdout, IsDiffLine)

BothDone == \A m \in Modes : run[m].rpc = "done"

Failed(r, i) == r.fetched[i][2] # "page"

WasParsed(r, p) == \E j \in 1..Len(r.parsed) : r.parsed[j] = p

\* C8: a provider whose fetch fails is skipped (its parser is not called),
\* the providers after it are still fetched in the order of the table, and
\* the run goes on to merge, stamp, diff and persist; main() is ended by an
\* exception only when loading the dataset fails, before any fetch.
C8_FetchFailuresAreIsolated ==
  \A m \in Modes :
    LET r == run[m] IN
    /\ \A i \in 1..Len(r.fetched) :
         /\ r.fetched[i][1] = Providers[i]
         /\ Failed(r, i) => ~WasParsed(r, r.fetched[i][1])
    /\ r.rpc \in {"merge", "stamp", "diff", "save", "done"} =>
         Len(r.fetched) = Len(Providers)
    /\ r.rpc = "aborted" => r.fetched = <<>>
====
